---- MODULE Spec2Model ----
(***************************************************************************)
(* Session / stream coordination core of the web relay:                    *)
(*   SessionStore (lib/session-store.js), SSEManager (lib/sse-manager.js), *)
(*   AgentRunner (lib/agent-runner.js) and the HTTP handlers of server.js. *)
(* One action is one event-loop turn: an HTTP handler, a sink event, or    *)
(* the continuation of a run after its upstream iterator settles.          *)
(***************************************************************************)
EXTENDS Integers, Sequences, FiniteSets, TLC

\* ---------------------------------------------------------------- bounds
\* uuid() values available to SessionStore.create
SessionIds == {1, 2}
\* response objects (one per SSE connection)
Sinks == {1, 2, 3}
\* invocations of AgentRunner.run that can be accepted
RunIds == {1, 2}
\* upstream items yielded, over all runs, before the iterators only end or throw
MaxItems == 2
\* the same budget where whole turns are followed (text, assistant turn, result)
MaxTurnItems == 3
\* session_id values an init message can carry
Tokens == {"t1", "t2"}
\* (total_cost_usd, usage.input_tokens, usage.output_tokens) of a result message
Figures == { [cost |-> 2, input |-> 3, output |-> 5] }
\* err.message of a failure that is not a cancellation
ErrMsgs == {"boom"}
\* prompt of a chat request: missing, plain text, or a slash command
Prompts == {"", "text", "/cmd"}

NoToken == "null"
NoRun == 0
NoSid == 0

VARIABLES
    sessions,   \* SessionStore.sessions : Map id -> session object
    usedIds,    \* uuid() values already handed out
    active,     \* AgentRunner.active : Map sessionId -> AbortController (by run)
    runs,       \* one record per invocation of AgentRunner.run
    nextRun,    \* number of run() invocations accepted so far
    clients,    \* SSEManager.clients : Map sessionId -> Set (insertion order)
    sink,       \* each response object: its state, its session, and the lengths of
                \* the session's broadcast log when it subscribed and when it
                \* broke or closed
    recv,       \* payloads written to each response object
    bcast,      \* sse.broadcast calls made per session, in call order
    client,     \* the browser page: the fields of App and the EventSources it made
    saveTimer,  \* the store's timer: the _saveTimer field, the timeouts it has
                \* pending in the event loop, and the clock read by new Date()
    disk        \* content of data/sessions.json

\* the state of the server process and its file
serverVars == <<sessions, usedIds, active, runs, nextRun, clients, sink, recv, bcast,
                saveTimer, disk>>

vars == <<serverVars, client>>

\* ------------------------------------------------------------- Map helpers
MapSet(m, k, v) == [x \in (DOMAIN m) \cup {k} |-> IF x = k THEN v ELSE m[x]]

MapDelete(m, k) == [x \in (DOMAIN m) \ {k} |-> m[x]]

Has(m, k) == k \in DOMAIN m

EmptyMap == [x \in {} |-> 0]

RECURSIVE SeqRemove(_, _)
SeqRemove(s, e) ==
    IF s = <<>> THEN <<>>
    ELSE IF Head(s) = e THEN SeqRemove(Tail(s), e)
    ELSE <<Head(s)>> \o SeqRemove(Tail(s), e)

SeqElems(s) == {s[i] : i \in 1..Len(s)}

\* An SSE event as it is serialized: type, a string value, numeric fields,
\* and the run that made the broadcast (0: the HTTP handler itself).
Ev(type, val, nums, run) == [type |-> type, val |-> val, nums |-> nums, run |-> run]

\* ------------------------------------------------------------ SessionStore
\* The part of the server state that store and hub calls thread through one turn.
World ==
    [ sessions |-> sessions, clients |-> clients, recv |-> recv, bcast |-> bcast,
      saveTimer |-> saveTimer ]

\* _saveTimer === null
NoTimer == 0

\* the handle setTimeout returns: distinct from every timeout still pending
FreshHandle(loop) ==
    CHOOSE h \in 1..(Cardinality(loop) + 1) :
        h \notin loop /\ \A o \in 1..(Cardinality(loop) + 1) : o \notin loop => h <= o

\* _scheduleSave that clears the pending timeout and sets a new one
ScheduleSaveRearms(t) ==
    LET h == FreshHandle(t.loop)
    IN  [t EXCEPT !.field = h, !.loop = (@ \ {t.field}) \cup {h}]

\* _scheduleSave(): nothing when a timeout is pending, else setTimeout
ScheduleSave(t) ==
    IF t.field # NoTimer THEN t
    ELSE LET h == FreshHandle(t.loop)
         IN  [t EXCEPT !.field = h, !.loop = @ \cup {h}]

\* process.cwd() of the server
ProcessCwd == "."

\* store.create: the session object it builds
NewSession(id, cwd) ==
    [ id |-> id, cwd |-> IF cwd = "" THEN ProcessCwd ELSE cwd,
      status |-> "idle", sdkSessionId |-> NoToken, messages |-> <<>>,
      totalCost |-> 0, totalInputTokens |-> 0, totalOutputTokens |-> 0,
      createdAt |-> saveTimer.now, lastActiveAt |-> saveTimer.now ]

\* store.update(id, updates): Object.assign on the stored object; null if unknown
StoreUpdate(w, id, updates) ==
    IF ~Has(w.sessions, id) THEN w
    ELSE [w EXCEPT !.sessions[id] =
                     [f \in DOMAIN @ |-> IF f = "lastActiveAt" THEN w.saveTimer.now
                                         ELSE IF f \in DOMAIN updates THEN updates[f]
                                         ELSE @[f]],
                   !.saveTimer = ScheduleSave(@)]

\* store.addMessage that puts the message in front of the history
StoreAddMessagePrepends(w, id, msg) ==
    IF ~Has(w.sessions, id) THEN w
    ELSE [w EXCEPT !.sessions[id].messages = <<msg>> \o @,
                   !.sessions[id].lastActiveAt = w.saveTimer.now]

\* store.addMessage(id, message)
StoreAddMessage(w, id, msg) ==
    IF ~Has(w.sessions, id) THEN w
    ELSE [w EXCEPT !.sessions[id].messages = Append(@, msg),
                   !.sessions[id].lastActiveAt = w.saveTimer.now]

\* a null element of the persisted array, and the null a store call returns
Null == [null |-> TRUE]

\* what store.update(id, updates) returns: the stored object, or null
StoreUpdateReturns(w, id, updates) ==
    IF ~Has(w.sessions, id) THEN Null ELSE StoreUpdate(w, id, updates).sessions[id]

\* store.delete that schedules a save whether or not it removed anything
StoreDeleteAlwaysSchedules(w, id) ==
    [w EXCEPT !.sessions = MapDelete(@, id), !.saveTimer = ScheduleSave(@)]

\* store.delete(id): Map.delete, and _scheduleSave if it removed the entry
StoreDelete(w, id) ==
    IF ~Has(w.sessions, id) THEN w
    ELSE [w EXCEPT !.sessions = MapDelete(@, id), !.saveTimer = ScheduleSave(@)]

\* what store.delete(id) returns: the result of Map.delete
StoreDeleteReturns(w, id) == Has(w.sessions, id)

\* data/sessions.json: no file, text that JSON.parse rejects, or an array
NoFile == [kind |-> "absent", val |-> <<>>]

Unparseable == [kind |-> "garbage", val |-> <<>>]

\* the ids of a Map in insertion order: uuid() hands the names out in
\* increasing order, so the order of the keys is the order of insertion
RECURSIVE KeysInOrder(_)
KeysInOrder(S) ==
    IF S = {} THEN <<>>
    ELSE LET k == CHOOSE x \in S : \A o \in S : x <= o
         IN  <<k>> \o KeysInOrder(S \ {k})

\* store.list(): metadata of every session, the history only by its length
StoreList(ss) ==
    LET ids == KeysInOrder(DOMAIN ss)
    IN  [i \in 1..Len(ids) |->
            [ id |-> ids[i], status |-> ss[ids[i]].status,
              totalCost |-> ss[ids[i]].totalCost,
              totalInputTokens |-> ss[ids[i]].totalInputTokens,
              totalOutputTokens |-> ss[ids[i]].totalOutputTokens,
              messageCount |-> Len(ss[ids[i]].messages),
              createdAt |-> ss[ids[i]].createdAt,
              lastActiveAt |-> ss[ids[i]].lastActiveAt ]]

\* Snapshot that writes the sessions as they are
SnapshotWithMessages(ss) ==
    LET ids == KeysInOrder(DOMAIN ss)
    IN  [kind |-> "array", val |-> [i \in 1..Len(ids) |-> ss[ids[i]]]]

\* _save: what is written, every session with its history emptied
Snapshot(ss) ==
    LET ids == KeysInOrder(DOMAIN ss)
    IN  [kind |-> "array",
         val |-> [i \in 1..Len(ids) |-> [ss[ids[i]] EXCEPT !.messages = <<>>]]]

\* _load: the for..of loop; reading a property of null throws, and the catch
\* around the loop leaves what was set before
RECURSIVE LoadEach(_, _)
LoadEach(arr, ss) ==
    IF arr = <<>> THEN ss
    ELSE IF Head(arr) = Null THEN ss
    ELSE LoadEach(Tail(arr), MapSet(ss, Head(arr).id, Head(arr)))

\* _load: the registry after the constructor
Load(d) == IF d.kind = "array" THEN LoadEach(d.val, EmptyMap) ELSE EmptyMap

\* store.getHistory(id)
GetHistory(ss, id) == IF Has(ss, id) THEN ss[id].messages ELSE <<>>

\* ------------------------------------------------------------- SSEManager
\* res.write(payload) throws on a broken response object
WriteThrows(res) == sink[res].st = "broken"

\* WriteEach with the try/catch around the whole loop: the first failing
\* write removes its sink and ends the iteration
RECURSIVE WriteEachStopsAtFailure(_, _, _, _)
WriteEachStopsAtFailure(todo, set, rc, ev) ==
    IF todo = <<>> THEN [set |-> set, recv |-> rc]
    ELSE IF WriteThrows(Head(todo))
         THEN [set |-> SeqRemove(set, Head(todo)), recv |-> rc]
         ELSE WriteEachStopsAtFailure(Tail(todo), set,
                                      [rc EXCEPT ![Head(todo)] = Append(@, ev)], ev)

\* WriteEach writing the payload twice to every sink
RECURSIVE WriteEachTwice(_, _, _, _)
WriteEachTwice(todo, set, rc, ev) ==
    IF todo = <<>> THEN [set |-> set, recv |-> rc]
    ELSE IF WriteThrows(Head(todo))
         THEN WriteEachTwice(Tail(todo), SeqRemove(set, Head(todo)), rc, ev)
         ELSE WriteEachTwice(Tail(todo), set,
                             [rc EXCEPT ![Head(todo)] = Append(Append(@, ev), ev)], ev)

\* the for..of loop of broadcast over the set, in insertion order
RECURSIVE WriteEach(_, _, _, _)
WriteEach(todo, set, rc, ev) ==
    IF todo = <<>> THEN [set |-> set, recv |-> rc]
    ELSE IF WriteThrows(Head(todo))
         THEN WriteEach(Tail(todo), SeqRemove(set, Head(todo)), rc, ev)
         ELSE WriteEach(Tail(todo), set, [rc EXCEPT ![Head(todo)] = Append(@, ev)], ev)

\* Broadcast that registers an empty set for a session that has none
BroadcastCreatesSet(w, sid, ev) ==
    LET logged == [w EXCEPT !.bcast[sid] = Append(@, ev)]
    IN  IF ~Has(w.clients, sid) THEN [logged EXCEPT !.clients = MapSet(@, sid, <<>>)]
        ELSE IF w.clients[sid] = <<>> THEN logged
        ELSE LET r == WriteEach(w.clients[sid], w.clients[sid], w.recv, ev)
             IN  [logged EXCEPT !.clients[sid] = r.set, !.recv = r.recv]

\* Broadcast that writes to the subscribers of every session
BroadcastToEverySession(w, sid, ev) ==
    [w EXCEPT !.bcast[sid] = Append(@, ev),
              !.recv = [k \in DOMAIN @ |->
                          IF /\ \E s \in DOMAIN w.clients : k \in SeqElems(w.clients[s])
                             /\ ~WriteThrows(k)
                          THEN Append(@[k], ev) ELSE @[k]]]

\* sse.broadcast(sessionId, event, data)
Broadcast(w, sid, ev) ==
    LET logged == [w EXCEPT !.bcast[sid] = Append(@, ev)]
    IN  IF ~Has(w.clients, sid) \/ w.clients[sid] = <<>> THEN logged
        ELSE LET r == WriteEach(w.clients[sid], w.clients[sid], w.recv, ev)
             IN  [logged EXCEPT !.clients[sid] = r.set, !.recv = r.recv]

\* sse.add(sessionId, res)
SseAdd(cl, sid, res) ==
    LET withKey == IF Has(cl, sid) THEN cl ELSE MapSet(cl, sid, <<>>)
    IN  [withKey EXCEPT ![sid] = IF res \in SeqElems(@) THEN @ ELSE Append(@, res)]

\* SseOnClose that leaves the set as it is
SseOnCloseKeeps(cl, sid, res) == cl

\* the 'close' listener registered by sse.add
SseOnClose(cl, sid, res) ==
    IF ~Has(cl, sid) THEN cl
    ELSE LET set == SeqRemove(cl[sid], res)
         IN  IF set = <<>> THEN MapDelete(cl, sid) ELSE MapSet(cl, sid, set)

Commit(w) ==
    /\ sessions' = w.sessions
    /\ clients' = w.clients
    /\ recv' = w.recv
    /\ bcast' = w.bcast
    /\ saveTimer' = w.saveTimer

\* sse.hasClients(sessionId)
HasClients(cl, sid) == IF Has(cl, sid) THEN Len(cl[sid]) > 0 ELSE FALSE

\* ------------------------------------------------------------ AgentRunner
\* let currentMsgId = null
NoMsgId == 0

FreeRun ==
    [ sid |-> NoSid, pc |-> "free", aborted |-> FALSE, items |-> 0, resume |-> NoToken,
      pre |-> [cost |-> 0, input |-> 0, output |-> 0],
      reported |-> [cost |-> 0, input |-> 0, output |-> 0],
      inits |-> 0, thrown |-> [name |-> "", message |-> ""], exit |-> "",
      settled |-> "pending", msgId |-> NoMsgId, uuids |-> 0 ]

\* currentMsgId || uuid(): the id in use, or else the value of a new uuid()
\* call (the calls of one run are numbered from 1)
MsgIdOrUuid(run) == IF run.msgId # NoMsgId THEN run.msgId ELSE run.uuids + 1

\* the number of uuid() calls of the run after one more || uuid()
UuidsAfter(run) == IF run.msgId # NoMsgId THEN run.uuids ELSE run.uuids + 1

\* currentMsgId after the loop has handled the item: set by a text block
\* start or a text delta, only read by a tool_use block start, reset by a
\* complete assistant message
StreamState(run, item) ==
    CASE item.kind \in {"text_start", "text_delta"} ->
            [run EXCEPT !.msgId = MsgIdOrUuid(run), !.uuids = UuidsAfter(run)]
      [] item.kind = "tool_start" ->
            [run EXCEPT !.uuids = UuidsAfter(run)]
      [] item.kind = "assistant" ->
            [run EXCEPT !.msgId = NoMsgId, !.uuids = UuidsAfter(run)]
      [] OTHER -> run

Totals(s) == [cost |-> s.totalCost, input |-> s.totalInputTokens, output |-> s.totalOutputTokens]

\* runner.isRunning(sessionId)
IsRunning(sid) == Has(active, sid)

\* ResumeOption that never resumes
ResumeOptionNever(session) == NoToken

\* the resume option of the query() call: set only for a truthy sdkSessionId
ResumeOption(session) == IF session.sdkSessionId # NoToken THEN session.sdkSessionId ELSE NoToken

\* RunPrologue with the status written only after the first await
RunPrologueLateStatus(w, sid, r) ==
    LET w2 == Broadcast(w, sid, Ev("status", "running", <<>>, r))
        w3 == StoreAddMessage(w2, sid, [role |-> "user", run |-> r])
    IN  Broadcast(w3, sid, Ev("user_message", "", <<>>, r))

\* RunPrologue that starts every run with the counters at zero
RunPrologueResetsTotals(w, sid, r) ==
    LET w1 == StoreUpdate(w, sid, [status |-> "running", totalCost |-> 0,
                                   totalInputTokens |-> 0, totalOutputTokens |-> 0])
        w2 == Broadcast(w1, sid, Ev("status", "running", <<>>, r))
        w3 == StoreAddMessage(w2, sid, [role |-> "user", run |-> r])
    IN  Broadcast(w3, sid, Ev("user_message", "", <<>>, r))

\* RunPrologue that records the user message before it sets the status
RunPrologueUserFirst(w, sid, r) ==
    LET w1 == StoreAddMessage(w, sid, [role |-> "user", run |-> r])
        w2 == Broadcast(w1, sid, Ev("user_message", "", <<>>, r))
        w3 == StoreUpdate(w2, sid, [status |-> "running"])
    IN  Broadcast(w3, sid, Ev("status", "running", <<>>, r))

\* run(): from the validation to the query() call, one synchronous stretch
RunPrologue(w, sid, r) ==
    LET w1 == StoreUpdate(w, sid, [status |-> "running"])
        w2 == Broadcast(w1, sid, Ev("status", "running", <<>>, r))
        w3 == StoreAddMessage(w2, sid, [role |-> "user", run |-> r])
    IN  Broadcast(w3, sid, Ev("user_message", "", <<>>, r))

\* run(): whether the validation lets the call through
\* run() that goes on only for a session whose status is idle
RunAcceptsIdleOnly(sid) == Has(sessions, sid) /\ sessions[sid].status = "idle"

RunAccepts(sid) == Has(sessions, sid) /\ sessions[sid].status # "running"

\* RunCatch that stores the cancellation as a status of its own
RunCatchStoresInterrupted(w, sid, r, err, aborted) ==
    IF err.name = "AbortError" \/ aborted
    THEN StoreUpdate(Broadcast(w, sid, Ev("status", "interrupted", <<>>, r)),
                     sid, [status |-> "interrupted"])
    ELSE StoreUpdate(Broadcast(w, sid, Ev("error", err.message, <<>>, r)),
                     sid, [status |-> "error"])

\* run(): the catch block
\* RunCatch that drops the resume token of a session it puts in error
RunCatchClearsToken(w, sid, r, err, aborted) ==
    IF err.name = "AbortError" \/ aborted
    THEN Broadcast(w, sid, Ev("status", "interrupted", <<>>, r))
    ELSE StoreUpdate(Broadcast(w, sid, Ev("error", err.message, <<>>, r)),
                     sid, [status |-> "error", sdkSessionId |-> NoToken])

RunCatch(w, sid, r, err, aborted) ==
    IF err.name = "AbortError" \/ aborted
    THEN Broadcast(w, sid, Ev("status", "interrupted", <<>>, r))
    ELSE StoreUpdate(Broadcast(w, sid, Ev("error", err.message, <<>>, r)),
                     sid, [status |-> "error"])

\* RunFinally without the reset of a status left at running
RunFinallyNoReset(w, sid, r) ==
    LET st == IF Has(w.sessions, sid) THEN w.sessions[sid].status ELSE "idle"
    IN  Broadcast(w, sid, Ev("status", st, <<>>, r))

\* RunFinally resetting the status whatever it is
RunFinallyAlwaysIdle(w, sid, r) ==
    LET w1 == StoreUpdate(w, sid, [status |-> "idle"])
        st == IF Has(w1.sessions, sid) THEN w1.sessions[sid].status ELSE "idle"
    IN  Broadcast(w1, sid, Ev("status", st, <<>>, r))

\* RunFinally that broadcasts the status before it resets it
RunFinallyBroadcastsFirst(w, sid, r) ==
    LET st == IF Has(w.sessions, sid) THEN w.sessions[sid].status ELSE "idle"
        w1 == Broadcast(w, sid, Ev("status", st, <<>>, r))
    IN  IF Has(w1.sessions, sid) /\ w1.sessions[sid].status = "running"
        THEN StoreUpdate(w1, sid, [status |-> "idle"])
        ELSE w1

\* run(): the finally block, after active.delete(sessionId)
\* RunFinally that resets the status without looking the session up first,
\* writing a record under the id when the registry has none
RunFinallyUpserts(w, sid, r) ==
    LET w1 == IF Has(w.sessions, sid) /\ w.sessions[sid].status # "running"
              THEN w
              ELSE [w EXCEPT !.sessions = MapSet(@, sid,
                              [(IF Has(w.sessions, sid) THEN w.sessions[sid]
                                ELSE NewSession(sid, ProcessCwd))
                                  EXCEPT !.status = "idle"]),
                            !.saveTimer = ScheduleSave(@)]
    IN  Broadcast(w1, sid, Ev("status", w1.sessions[sid].status, <<>>, r))

RunFinally(w, sid, r) ==
    LET w1 == IF Has(w.sessions, sid) /\ w.sessions[sid].status = "running"
              THEN StoreUpdate(w, sid, [status |-> "idle"])
              ELSE w
        st == IF Has(w1.sessions, sid) THEN w1.sessions[sid].status ELSE "idle"
    IN  Broadcast(w1, sid, Ev("status", st, <<>>, r))

\* case 'system' / subtype 'init'
OnInit(w, sid, r, tok) ==
    Broadcast(StoreUpdate(w, sid, [sdkSessionId |-> tok]),
              sid, Ev("system_init", tok, <<>>, r))

\* case 'stream_event' / content_block_delta / text_delta
OnTextDelta(w, sid, r) ==
    Broadcast(w, sid, Ev("text_delta", "", <<MsgIdOrUuid(runs[r])>>, r))

\* case 'stream_event' / content_block_start / tool_use
OnToolStart(w, sid, r) ==
    Broadcast(w, sid, Ev("tool_start", "", <<MsgIdOrUuid(runs[r])>>, r))

\* case 'stream_event' / content_block_delta / input_json_delta
OnToolInputDelta(w, sid, r) ==
    Broadcast(w, sid, Ev("tool_input_delta", "", <<runs[r].msgId>>, r))

\* case 'user' with one tool_result block
OnToolResult(w, sid, r) == Broadcast(w, sid, Ev("tool_complete", "", <<>>, r))

\* OnAssistant that broadcasts the turn without storing it
OnAssistantNotStored(w, sid, r) ==
    Broadcast(w, sid, Ev("assistant_message", "", <<MsgIdOrUuid(runs[r])>>, r))

\* case 'assistant'
OnAssistant(w, sid, r) ==
    Broadcast(StoreAddMessage(w, sid, [role |-> "assistant", run |-> r]),
              sid, Ev("assistant_message", "", <<MsgIdOrUuid(runs[r])>>, r))

\* OnResult storing the run's figures instead of adding them
OnResultOverwrite(w, sid, r, fig) ==
    LET w1 == StoreUpdate(w, sid,
                [ totalCost |-> fig.cost,
                  totalInputTokens |-> fig.input,
                  totalOutputTokens |-> fig.output ])
        t == Totals(w1.sessions[sid])
    IN  Broadcast(w1, sid,
            Ev("result", "", <<fig.cost, fig.input, fig.output, t.cost, t.input, t.output>>, r))

\* case 'result': accumulate into the session, then broadcast with the totals
OnResult(w, sid, r, fig) ==
    LET session == w.sessions[sid]
        w1 == StoreUpdate(w, sid,
                [ totalCost |-> session.totalCost + fig.cost,
                  totalInputTokens |-> session.totalInputTokens + fig.input,
                  totalOutputTokens |-> session.totalOutputTokens + fig.output ])
        t == Totals(w1.sessions[sid])
    IN  Broadcast(w1, sid,
            Ev("result", "", <<fig.cost, fig.input, fig.output, t.cost, t.input, t.output>>, r))

\* PromiseOutcome with a catch block that throws the failure on
PromiseOutcomeRethrows(exit) == IF exit = "throw" THEN "rejected" ELSE "fulfilled"

\* how the promise returned by run() settles once the try statement is left:
\* the catch block handles whatever the loop threw and throws nothing itself
PromiseOutcome(exit) == "fulfilled"

\* run(): leave through finally; active.delete(sessionId) comes first
Unwind(w, r, exit) ==
    LET sid == runs[r].sid
    IN  /\ active' = MapDelete(active, sid)
        /\ Commit(RunFinally(w, sid, r))
        /\ runs' = [runs EXCEPT ![r].pc = "done", ![r].exit = exit,
                                 ![r].settled = PromiseOutcome(exit)]

\* Interrupt that flips the signal instead of setting it
InterruptToggles(sid) ==
    IF Has(active, sid) THEN [runs EXCEPT ![active[sid]].aborted = ~@] ELSE runs

\* runner.interrupt(sessionId): the controllers after the call
Interrupt(sid) ==
    IF Has(active, sid) THEN [runs EXCEPT ![active[sid]].aborted = TRUE] ELSE runs

\* runner.interrupt(sessionId): the value returned, which POST
\* /api/chat/:id/stop sends back as "interrupted"
InterruptReturns(sid) == Has(active, sid)

\* --------------------------------------------------------------- upstream
NoFig == [cost |-> 0, input |-> 0, output |-> 0]

Items ==
    {[kind |-> "init", tok |-> t, fig |-> NoFig] : t \in Tokens}
    \cup {[kind |-> k, tok |-> NoToken, fig |-> NoFig] :
             k \in {"text_delta", "assistant", "tool_start", "tool_input_delta", "tool_result"}}
    \cup {[kind |-> "result", tok |-> NoToken, fig |-> f] : f \in Figures}

Errors ==
    {[name |-> "AbortError", message |-> "aborted"]}
    \cup {[name |-> "Error", message |-> m] : m \in ErrMsgs}

\* --------------------------------------------------------- HTTP responses
\* CreateCode without the check of cwd
CreateCodeUnchecked(cwd) == 201

\* POST /api/sessions: status code for a request body with this cwd
CreateCode(cwd) == IF cwd = "" THEN 400 ELSE 201

\* ChatCode without the 409 for a session whose status is running
ChatCodeNoConflict(sid, prompt, resolved) ==
    IF sid = NoSid \/ prompt = "" THEN 400
    ELSE IF ~Has(sessions, sid) THEN 404
    ELSE IF prompt = "/cmd" /\ ~resolved THEN 400
    ELSE 202

\* POST /api/chat: status code, decided before anything is changed
ChatCode(sid, prompt, resolved) ==
    IF sid = NoSid \/ prompt = "" THEN 400
    ELSE IF ~Has(sessions, sid) THEN 404
    ELSE IF sessions[sid].status = "running" THEN 409
    ELSE IF prompt = "/cmd" /\ ~resolved THEN 400
    ELSE 202

\* GET /api/chat/:id/sse: status code
SseCode(id) == IF Has(sessions, id) THEN 200 ELSE 404

\* uuid(): a value never handed out before (the ids are opaque, so the
\* least unused name stands for it)
FreshId(id) == id \notin usedIds /\ \A o \in SessionIds \ usedIds : id <= o

\* ------------------------------------------------------------ browser page
\* App.sse === null
NoStream == 0

\* No POST /api/chat answered yet
NoCode == 0

\* App as loaded: no session selected, no EventSource, no selectSession call
\* waiting for its fetches, the prompt input disabled as it is whenever no
\* session is shown, no thinking indicator in the DOM; es holds the
\* EventSources made so far (the k-th is served by response object k), each
\* with its session, whether it is open, and how many of the events written
\* to it have been dispatched; code and run are the answer to the last
\* POST /api/chat and the run it started
FreshPage ==
    [ currentSession |-> NoSid, sse |-> NoStream, es |-> EmptyMap, selecting |-> <<>>,
      disabled |-> TRUE, thinking |-> FALSE, code |-> NoCode, run |-> NoRun ]

\* disconnectSSE()
DisconnectSSE(c) ==
    IF c.sse = NoStream THEN c
    ELSE [c EXCEPT !.es[c.sse].open = FALSE, !.sse = NoStream]

\* connectSSE(sessionId): disconnectSSE, then a new EventSource in this.sse
ConnectSSE(c, id) ==
    LET d == DisconnectSSE(c)
        h == Cardinality(DOMAIN d.es) + 1
    IN  [d EXCEPT !.es = MapSet(@, h, [sid |-> id, open |-> TRUE, seen |-> 0]),
                  !.sse = h]

\* hideThinking(), by a stream handler
HidesThinking(type) == type \in {"text_delta", "tool_start", "result"}

\* the EventSources of the page that are open
OpenStreams(c) == {h \in DOMAIN c.es : c.es[h].open}

\* ------------------------------------------------------------------ state
Init ==
    /\ sessions = EmptyMap
    /\ usedIds = {}
    /\ active = EmptyMap
    /\ runs = [r \in RunIds |-> FreeRun]
    /\ nextRun = 0
    /\ clients = EmptyMap
    /\ sink = [k \in Sinks |-> [st |-> "new", sid |-> NoSid, from |-> 0, upto |-> 0]]
    /\ recv = [k \in Sinks |-> <<>>]
    /\ bcast = [s \in SessionIds |-> <<>>]
    /\ saveTimer = [field |-> NoTimer, loop |-> {}, now |-> 0]
    /\ disk = NoFile
    /\ client = FreshPage

\* POST /api/sessions
CreateSession(id, cwd) ==
    /\ IF CreateCode(cwd) = 400
       THEN UNCHANGED <<sessions, usedIds, saveTimer>>
       ELSE /\ FreshId(id)
            /\ usedIds' = usedIds \cup {id}
            /\ sessions' = MapSet(sessions, id, NewSession(id, cwd))
            /\ saveTimer' = ScheduleSave(saveTimer)
    /\ UNCHANGED <<client, active, runs, nextRun, clients, sink, recv, bcast, disk>>

\* DELETE /api/sessions/:id
DeleteSession(id) ==
    /\ runs' = IF IsRunning(id) THEN Interrupt(id) ELSE runs
    /\ sessions' = StoreDelete(World, id).sessions
    /\ saveTimer' = StoreDelete(World, id).saveTimer
    /\ UNCHANGED <<client, usedIds, active, nextRun, clients, sink, recv, bcast, disk>>

\* POST /api/chat, up to and including the synchronous stretch of runner.run
ChatRequest(sid, prompt, resolved) ==
    IF ChatCode(sid, prompt, resolved) # 202
    THEN UNCHANGED serverVars
    ELSE LET r == nextRun + 1
             w0 == IF prompt = "/cmd"
                   THEN Broadcast(World, sid, Ev("command_expanded", "", <<>>, NoRun))
                   ELSE World
         IN  /\ r \in RunIds
             /\ IF RunAccepts(sid)
                THEN /\ active' = MapSet(active, sid, r)
                     /\ nextRun' = r
                     /\ runs' = [runs EXCEPT ![r] =
                                   [FreeRun EXCEPT !.sid = sid, !.pc = "streaming",
                                                   !.resume = ResumeOption(sessions[sid]),
                                                   !.pre = Totals(sessions[sid])]]
                     /\ Commit(RunPrologue(w0, sid, r))
                ELSE /\ Commit(w0)
                     /\ UNCHANGED <<active, nextRun, runs>>
             /\ UNCHANGED <<usedIds, sink, disk>>

\* POST /api/chat sent by a caller other than the page
Chat(sid, prompt, resolved) == ChatRequest(sid, prompt, resolved) /\ UNCHANGED client

\* POST /api/chat/:id/stop
Stop(id) ==
    /\ runs' = Interrupt(id)
    /\ UNCHANGED <<client, sessions, usedIds, active, nextRun, clients, sink, recv, bcast,
                   saveTimer, disk>>

\* Subscribe that registers the sink without writing the connected event
SubscribeWithoutConnected(id, k) ==
    /\ sink[k].st = "new"
    /\ \A o \in Sinks : sink[o].st = "new" => k <= o
    /\ IF SseCode(id) = 404
       THEN UNCHANGED <<clients, sink, recv>>
       ELSE /\ recv' = recv
            /\ clients' = SseAdd(clients, id, k)
            /\ sink' = [sink EXCEPT ![k] = [st |-> "open", sid |-> id,
                                              from |-> Len(bcast[id]), upto |-> 0]]
    /\ UNCHANGED <<client, sessions, usedIds, active, runs, nextRun, bcast, saveTimer, disk>>

\* GET /api/chat/:id/sse
Subscribe(id, k) ==
    /\ sink[k].st = "new"
    /\ \A o \in Sinks : sink[o].st = "new" => k <= o
    /\ IF SseCode(id) = 404
       THEN UNCHANGED <<clients, sink, recv>>
       ELSE /\ recv' = [recv EXCEPT ![k] = Append(@, Ev("connected", "", <<id>>, NoRun))]
            /\ clients' = SseAdd(clients, id, k)
            /\ sink' = [sink EXCEPT ![k] = [st |-> "open", sid |-> id,
                                              from |-> Len(bcast[id]), upto |-> 0]]
    /\ UNCHANGED <<client, sessions, usedIds, active, runs, nextRun, bcast, saveTimer, disk>>

\* a response object starts to throw on write (before its close event)
SinkBreak(k) ==
    /\ sink[k].st = "open"
    /\ sink' = [sink EXCEPT ![k].st = "broken", ![k].upto = Len(bcast[sink[k].sid])]
    /\ UNCHANGED <<client, sessions, usedIds, active, runs, nextRun, clients, recv, bcast,
                   saveTimer, disk>>

\* the response object's 'close' event
SinkClose(k) ==
    /\ sink[k].st \in {"open", "broken"}
    /\ sink' = [sink EXCEPT ![k].st = "closed",
                             ![k].upto = IF sink[k].st = "open"
                                         THEN Len(bcast[sink[k].sid]) ELSE @]
    /\ clients' = SseOnClose(clients, sink[k].sid, k)
    /\ UNCHANGED <<client, sessions, usedIds, active, runs, nextRun, recv, bcast, saveTimer, disk>>

\* upstream items yielded so far by the runs in S
RECURSIVE Yielded(_)
Yielded(S) ==
    IF S = {} THEN 0
    ELSE LET r == CHOOSE x \in S : TRUE IN runs[r].items + Yielded(S \ {r})

\* the switch of the for-await body on one upstream message
Translate(w, sid, r, item) ==
    CASE item.kind = "init" -> OnInit(w, sid, r, item.tok)
      [] item.kind = "text_start" -> w
      [] item.kind = "text_delta" -> OnTextDelta(w, sid, r)
      [] item.kind = "assistant" -> OnAssistant(w, sid, r)
      [] item.kind = "tool_start" -> OnToolStart(w, sid, r)
      [] item.kind = "tool_input_delta" -> OnToolInputDelta(w, sid, r)
      [] item.kind = "tool_result" -> OnToolResult(w, sid, r)
      [] item.kind = "result" -> OnResult(w, sid, r, item.fig)

\* LoopItem without the test of the signal at the head of the body
LoopItemNoAbortCheck(r, item) ==
    /\ runs[r].pc = "streaming"
    /\ Has(sessions, runs[r].sid)
    /\ Commit(Translate(World, runs[r].sid, r, item))
    /\ runs' = [runs EXCEPT ![r] = StreamState(@, item), ![r].items = @ + 1]
    /\ UNCHANGED <<client, active, usedIds, nextRun, sink, disk>>

\* the upstream iterator yields a message: one pass of the for-await body
LoopItem(r, item) ==
    /\ runs[r].pc = "streaming"
    /\ IF runs[r].aborted
       THEN Unwind(World, r, "break")
       ELSE \* a delete aborts the signal first, so the record is still there
            /\ Has(sessions, runs[r].sid)
            /\ Commit(Translate(World, runs[r].sid, r, item))
            /\ runs' = [runs EXCEPT
                  ![r] = StreamState(@, item),
                  ![r].items = @ + 1,
                  ![r].inits = IF item.kind = "init" THEN @ + 1 ELSE @,
                  ![r].reported = IF item.kind = "result"
                                  THEN [cost |-> @.cost + item.fig.cost,
                                        input |-> @.input + item.fig.input,
                                        output |-> @.output + item.fig.output]
                                  ELSE @]
            /\ UNCHANGED active
    /\ UNCHANGED <<client, usedIds, nextRun, sink, disk>>

\* the upstream iterator is exhausted
UpstreamEnd(r) ==
    /\ runs[r].pc = "streaming"
    /\ Unwind(World, r, "end")
    /\ UNCHANGED <<client, usedIds, nextRun, sink, disk>>

\* the upstream iterator rejects; it raises AbortError only for an aborted signal
UpstreamThrow(r, err) ==
    /\ runs[r].pc = "streaming"
    /\ err.name = "AbortError" => runs[r].aborted
    /\ LET sid == runs[r].sid
           w1 == RunCatch(World, sid, r, err, runs[r].aborted)
       IN  /\ active' = MapDelete(active, sid)
           /\ Commit(RunFinally(w1, sid, r))
           /\ runs' = [runs EXCEPT ![r].pc = "done", ![r].exit = "throw", ![r].thrown = err,
                                    ![r].settled = PromiseOutcome("throw")]
    /\ UNCHANGED <<client, usedIds, nextRun, sink, disk>>

\* a timeout set by _scheduleSave fires, its delay later: the field is
\* cleared, then _save; a write that throws is caught and leaves the file as
\* it was
SaveTimerFires(written) ==
    /\ \E h \in saveTimer.loop :
          saveTimer' = [field |-> NoTimer, loop |-> saveTimer.loop \ {h},
                        now |-> saveTimer.now + 1]
    /\ disk' = IF written THEN Snapshot(sessions) ELSE disk
    /\ UNCHANGED <<client, sessions, usedIds, active, runs, nextRun, clients, sink, recv, bcast>>

\* the file is damaged from outside the process: it becomes unparseable, or
\* one element of the array becomes null
DamageFile(d) ==
    /\ disk.kind = "array"
    /\ \/ d = Unparseable
       \/ \E i \in 1..Len(disk.val) :
             disk.val[i] # Null /\ d = [disk EXCEPT !.val[i] = Null]
    /\ disk' = d
    /\ UNCHANGED <<client, sessions, usedIds, active, runs, nextRun, clients, sink, recv, bcast,
                   saveTimer>>

\* the process stops and a new one starts: the constructor of the store loads
\* the file; timers, controllers, open loops and connections are gone
Restart ==
    /\ sessions' = Load(disk)
    /\ saveTimer' = [saveTimer EXCEPT !.field = NoTimer, !.loop = {}]
    /\ active' = EmptyMap
    /\ runs' = [r \in RunIds |->
                  IF runs[r].pc = "streaming" THEN [runs[r] EXCEPT !.pc = "lost"] ELSE runs[r]]
    /\ clients' = EmptyMap
    /\ sink' = [k \in Sinks |->
                  IF sink[k].st \in {"open", "broken"}
                  THEN [sink[k] EXCEPT !.st = "closed",
                                       !.upto = IF sink[k].st = "open"
                                                THEN Len(bcast[sink[k].sid]) ELSE @]
                  ELSE sink[k]]
    /\ UNCHANGED <<client, usedIds, nextRun, recv, bcast, disk>>

\* store.update(id, {}) : a partial-fields object with no field
NoFields == <<>>

\* a caller invokes store.update(id, updates)
CallUpdate(id, updates) ==
    /\ Commit(StoreUpdate(World, id, updates))
    /\ UNCHANGED <<client, usedIds, active, runs, nextRun, sink, disk>>

\* a caller invokes store.addMessage(id, message)
CallAddMessage(id) ==
    /\ Commit(StoreAddMessage(World, id, [role |-> "user", run |-> NoRun]))
    /\ UNCHANGED <<client, usedIds, active, runs, nextRun, sink, disk>>

\* selectSession(id) up to its await: the user clicks an entry of the list
SelectSession(id) ==
    /\ Has(sessions, id)
    /\ client' = [DisconnectSSE(client) EXCEPT !.currentSession = id,
                                               !.selecting = Append(@, id)]
    /\ UNCHANGED serverVars

\* selectSession after its await: both fetches of the i-th waiting call are
\* answered; the list is searched, the input is enabled, the message area is
\* emptied (and the thinking indicator with it), the stream is connected and
\* the running state is shown
SelectSessionLoaded(i) ==
    /\ i \in 1..Len(client.selecting)
    /\ LET id == client.selecting[i]
           c == [client EXCEPT !.selecting = SubSeq(@, 1, i - 1) \o SubSeq(@, i + 1, Len(@))]
       IN  client' = IF ~Has(sessions, id) THEN c
                     ELSE ConnectSSE([c EXCEPT !.thinking = FALSE,
                                               !.disabled = (sessions[id].status = "running")],
                                     id)
    /\ UNCHANGED serverVars

\* sendMessage(): the user message and the thinking indicator are shown,
\* then POST /api/chat is sent and answered
SendMessage(prompt, resolved) ==
    /\ ~client.disabled
    /\ prompt # "" /\ client.currentSession # NoSid
    /\ ChatRequest(client.currentSession, prompt, resolved)
    /\ client' = [client EXCEPT
                     !.thinking = TRUE,
                     !.code = ChatCode(client.currentSession, prompt, resolved),
                     !.run = IF ChatCode(client.currentSession, prompt, resolved) = 202
                                  /\ RunAccepts(client.currentSession)
                             THEN nextRun + 1 ELSE NoRun]

\* an open EventSource dispatches the next event written to it
StreamEvent(h) ==
    /\ h \in OpenStreams(client)
    /\ client.es[h].seen < Len(recv[h])
    /\ client' = [client EXCEPT
                     !.es[h].seen = @ + 1,
                     !.disabled = IF recv[h][client.es[h].seen + 1].type = "status"
                                  THEN recv[h][client.es[h].seen + 1].val = "running" ELSE @,
                     !.thinking = IF HidesThinking(recv[h][client.es[h].seen + 1].type)
                                  THEN FALSE ELSE @]
    /\ UNCHANGED serverVars

\* upstream messages by what the loop does with them
InitItems == {i \in Items : i.kind = "init"}

ResultItems == {i \in Items : i.kind = "result"}

TextItems == {i \in Items : i.kind = "text_delta"}

\* Run lifecycle: two sessions, no subscribers, init and result messages.
Next ==
    \/ \E id \in SessionIds, cwd \in {"", "/tmp"} : CreateSession(id, cwd)
    \/ \E id \in SessionIds : DeleteSession(id)
    \/ \E sid \in SessionIds \cup {NoSid}, p \in Prompts \ {"/cmd"} : Chat(sid, p, TRUE)
    \/ \E id \in SessionIds : Stop(id)
    \/ \E r \in RunIds, item \in InitItems \cup ResultItems :
            Yielded(RunIds) < MaxItems /\ LoopItem(r, item)
    \/ \E r \in RunIds : UpstreamEnd(r)
    \/ \E r \in RunIds, err \in Errors : UpstreamThrow(r, err)

Spec == Init /\ [][Next]_vars

\* Subscriber hub: sinks subscribing, breaking and closing around the
\* broadcasts of a single run, on either session.
HubNext ==
    \/ \E id \in SessionIds : CreateSession(id, "/tmp")
    \/ \E sid \in SessionIds : nextRun < 1 /\ Chat(sid, "text", TRUE)
    \/ \E id \in SessionIds, k \in Sinks : Subscribe(id, k)
    \/ \E k \in Sinks : SinkBreak(k)
    \/ \E k \in Sinks : SinkClose(k)
    \/ \E r \in RunIds, item \in TextItems :
            Yielded(RunIds) < MaxItems /\ LoopItem(r, item)
    \/ \E r \in RunIds : UpstreamEnd(r)

HubSpec == Init /\ [][HubNext]_vars

\* Two sessions side by side: each can be subscribed to, started, cancelled
\* and run to its end while the other one has a run of its own.
IsoSinks == {1, 2}

IsoNext ==
    \/ \E id \in SessionIds : CreateSession(id, "/tmp")
    \/ \E sid \in SessionIds : Chat(sid, "text", TRUE)
    \/ \E id \in SessionIds : Stop(id)
    \/ \E id \in SessionIds, k \in IsoSinks : Subscribe(id, k)
    \/ \E r \in RunIds, item \in ResultItems :
            Yielded(RunIds) < MaxItems /\ LoopItem(r, item)
    \/ \E r \in RunIds : UpstreamEnd(r)

IsoSpec == Init /\ [][IsoNext]_vars

\* Persistence windows: registry mutations by the routes and by runs, with
\* the scheduled flush firing in between; every write succeeds and the
\* process keeps running.
AssistantItems == {i \in Items : i.kind = "assistant"}

FlushNext ==
    \/ \E id \in SessionIds : CreateSession(id, "/tmp")
    \/ \E id \in SessionIds : DeleteSession(id)
    \/ \E sid \in SessionIds : Chat(sid, "text", TRUE)
    \/ \E r \in RunIds, item \in AssistantItems \cup ResultItems :
            Yielded(RunIds) < MaxItems /\ LoopItem(r, item)
    \/ \E r \in RunIds : UpstreamEnd(r)
    \/ SaveTimerFires(TRUE)

FlushSpec == Init /\ [][FlushNext]_vars

\* Streaming of assistant turns: the partial messages of one session's runs,
\* text and tool_use blocks in any order, closed by complete assistant
\* messages.
StreamItems ==
    {[kind |-> k, tok |-> NoToken, fig |-> NoFig] :
        k \in {"text_start", "text_delta", "tool_start", "tool_input_delta", "assistant"}}

StreamNext ==
    \/ CreateSession(1, "/tmp")
    \/ Chat(1, "text", TRUE)
    \/ \E r \in RunIds, item \in StreamItems :
            Yielded(RunIds) < MaxTurnItems /\ LoopItem(r, item)
    \/ \E r \in RunIds : UpstreamEnd(r)

StreamSpec == Init /\ [][StreamNext]_vars

\* The registry called directly, with known and unknown ids, while the clock
\* moves on with each flush.
MaxClock == 2

MaxHistory == 2

StoreNext ==
    \/ \E id \in SessionIds : CreateSession(id, "/tmp")
    \/ \E id \in SessionIds : DeleteSession(id)
    \/ \E id \in SessionIds : CallUpdate(id, NoFields)
    \/ \E id \in SessionIds : CallUpdate(id, [status |-> "error"])
    \/ \E id \in SessionIds :
            /\ Has(sessions, id) => Len(sessions[id].messages) < MaxHistory
            /\ CallAddMessage(id)
    \/ saveTimer.now < MaxClock /\ SaveTimerFires(TRUE)

StoreSpec == Init /\ [][StoreNext]_vars

\* Selecting sessions: the user clicks entries of the session list while
\* earlier clicks still wait for their fetches; the server serves the
\* EventSources the page makes and sees them close.  Every EventSource is
\* served by a response object of its own, so the clicks are as many as the
\* response objects.
MaxSelects == Cardinality(Sinks)

SelectNext ==
    \/ \E id \in SessionIds : CreateSession(id, "/tmp")
    \/ \E id \in SessionIds :
            /\ Len(client.selecting) + Cardinality(DOMAIN client.es) < MaxSelects
            /\ SelectSession(id)
    \/ \E i \in 1..MaxSelects : SelectSessionLoaded(i)
    \/ \E h \in DOMAIN client.es : Subscribe(client.es[h].sid, h)
    \/ \E h \in DOMAIN client.es : ~client.es[h].open /\ SinkClose(h)

SelectSpec == Init /\ [][SelectNext]_vars

\* The page and the server: the user selects the session and sends prompts,
\* the server answers and serves the page's EventSource, and the runs the
\* page starts stream, are stopped, fail or end.
PageNext ==
    \/ CreateSession(1, "/tmp")
    \/ client.selecting = <<>> /\ client.es = EmptyMap /\ SelectSession(1)
    \/ SelectSessionLoaded(1)
    \/ \E h \in DOMAIN client.es : Subscribe(client.es[h].sid, h)
    \/ \E p \in {"text", "/cmd"}, resolved \in BOOLEAN : SendMessage(p, resolved)
    \/ \E h \in DOMAIN client.es : StreamEvent(h)
    \/ client.currentSession # NoSid /\ Stop(client.currentSession)
    \/ \E r \in RunIds, item \in TextItems \cup ResultItems :
            Yielded(RunIds) < MaxItems /\ LoopItem(r, item)
    \/ \E r \in RunIds : UpstreamEnd(r)
    \/ \E r \in RunIds, err \in Errors : UpstreamThrow(r, err)

PageSpec == Init /\ [][PageNext]_vars

\* Whole turns: one session (id 2 stays unknown), any chat request, any
\* upstream message.
TurnNext ==
    \/ \E cwd \in {"", "/tmp"} : CreateSession(1, cwd)
    \/ \E sid \in SessionIds \cup {NoSid}, p \in Prompts, resolved \in BOOLEAN :
            Chat(sid, p, resolved)
    \/ \E r \in RunIds, item \in Items :
            Yielded(RunIds) < MaxTurnItems /\ LoopItem(r, item)
    \/ \E r \in RunIds : UpstreamEnd(r)

TurnSpec == Init /\ [][TurnNext]_vars

\* Cancellation: the runs of one session with any upstream message, stop
\* requests at any point, and the upstream ending or throwing.
CancelNext ==
    \/ CreateSession(1, "/tmp")
    \/ Chat(1, "text", TRUE)
    \/ Stop(1)
    \/ \E r \in RunIds, item \in Items :
            Yielded(RunIds) < MaxTurnItems /\ LoopItem(r, item)
    \/ \E r \in RunIds : UpstreamEnd(r)
    \/ \E r \in RunIds, err \in Errors : UpstreamThrow(r, err)

CancelSpec == Init /\ [][CancelNext]_vars

\* The files a damage can leave: unparseable text, or the array with one of
\* its elements replaced by null
DamagedFiles ==
    {Unparseable} \cup
    (IF disk.kind = "array"
     THEN {[disk EXCEPT !.val[i] = Null] : i \in 1..Len(disk.val)} ELSE {})

\* Persistence: sessions and runs with the save timer, damage to the file and
\* restarts of the process.
PersistNext ==
    \/ \E id \in SessionIds : CreateSession(id, "/tmp")
    \/ \E sid \in SessionIds : Chat(sid, "text", TRUE)
    \/ \E r \in RunIds, item \in ResultItems :
            Yielded(RunIds) < MaxItems /\ LoopItem(r, item)
    \/ \E r \in RunIds : UpstreamEnd(r)
    \/ \E written \in BOOLEAN : SaveTimerFires(written)
    \/ \E d \in DamagedFiles : DamageFile(d)
    \/ Restart

PersistSpec == Init /\ [][PersistNext]_vars

\* the upstream of run r settles, in the persistence scenario
PersistSettles(r) ==
    \/ \E item \in ResultItems : Yielded(RunIds) < MaxItems /\ LoopItem(r, item)
    \/ UpstreamEnd(r)

\* PersistSpec, with every open upstream iterator settling again and again
FairPersistSpec == PersistSpec /\ \A r \in RunIds : WF_vars(PersistSettles(r))

\* ------------------------------------------------------------- properties
\* the runs of session s whose loop has not unwound yet
LiveRuns(s) == {r \in RunIds : runs[r].pc = "streaming" /\ runs[r].sid = s}

\* the run accepted last on session s (NoRun if none)
LatestRun(s) ==
    LET mine == {r \in RunIds : runs[r].pc # "free" /\ runs[r].sid = s}
    IN  IF mine = {} THEN NoRun ELSE CHOOSE r \in mine : \A o \in mine : o <= r

\* the positions of bcast[s] that hold an event of this type made by run r
EventsOf(s, type, r) ==
    {i \in 1..Len(bcast[s]) : bcast[s][i].type = type /\ bcast[s][i].run = r}

\* C1: a session never has two runs in flight: the only run in flight is the
\* one in the active map, a chat request on an idle session is accepted (202),
\* and while that run is in flight another chat request on the session is
\* refused with 409 and run() itself would refuse it too.
C1_AtMostOneRunPerSession ==
    \A s \in SessionIds :
        /\ Cardinality(LiveRuns(s)) <= 1
        /\ LiveRuns(s) # {} => Has(active, s) /\ active[s] \in LiveRuns(s)
        /\ Has(sessions, s) /\ sessions[s].status = "idle" =>
               LiveRuns(s) = {} /\ ChatCode(s, "text", TRUE) = 202
        /\ Has(sessions, s) /\ LiveRuns(s) # {} =>
               ChatCode(s, "text", TRUE) = 409 /\ ~RunAccepts(s)

\* a run was accepted and no upstream item has arrived: a second chat request
\* on the same session comes now
C1_Witness ==
    \E r \in RunIds :
        /\ runs[r].pc = "streaming" /\ runs[r].items = 0
        /\ Has(sessions, runs[r].sid)
        /\ ChatCode(runs[r].sid, "text", TRUE) = 409

\* C2: the active map has an entry for an id exactly when the registry holds
\* a session with that id whose status is running.
C2_ActiveIffRunning ==
    \A s \in SessionIds :
        Has(active, s) <=> (Has(sessions, s) /\ sessions[s].status = "running")

\* the upstream of run r settles: it yields, ends or throws
UpstreamSettles(r) ==
    \/ \E item \in InitItems \cup ResultItems :
            Yielded(RunIds) < MaxItems /\ LoopItem(r, item)
    \/ UpstreamEnd(r)
    \/ \E err \in Errors : UpstreamThrow(r, err)

\* Spec, with every open upstream iterator settling again and again
FairSpec == Spec /\ \A r \in RunIds : WF_vars(UpstreamSettles(r))

\* C3: a session whose status is running eventually has its active-run entry
\* removed and a status other than running (or no record any more, when it
\* was deleted meanwhile).
C3_RunningEventuallyUnwinds ==
    \A s \in SessionIds :
        (Has(sessions, s) /\ sessions[s].status = "running")
            ~> (~Has(active, s) /\ (Has(sessions, s) => sessions[s].status # "running"))

\* runs have left by each of the three exits, and nothing is left running
C3_Witness ==
    /\ \A r \in RunIds : runs[r].pc = "done"
    /\ \E r \in RunIds : runs[r].exit = "break"
    /\ \E r \in RunIds : runs[r].exit = "throw"
    /\ active = EmptyMap

\* C4: a run that was cancelled while in flight, on a session that is still
\* there, has broadcast a status interrupted, no error event and no status
\* error, and has left its session idle.
C4_CancelBroadcastsInterrupted ==
    \A r \in RunIds :
        runs[r].pc = "done" /\ runs[r].aborted /\ Has(sessions, runs[r].sid) =>
            /\ \E i \in EventsOf(runs[r].sid, "status", r) :
                   bcast[runs[r].sid][i].val = "interrupted"
            /\ EventsOf(runs[r].sid, "error", r) = {}
            /\ \A i \in EventsOf(runs[r].sid, "status", r) :
                   bcast[runs[r].sid][i].val # "error"
            /\ LatestRun(runs[r].sid) = r => sessions[runs[r].sid].status = "idle"

ResultEvents(s) == {i \in 1..Len(bcast[s]) : bcast[s][i].type = "result"}

PrevTotals(s, i) ==
    LET earlier == {j \in ResultEvents(s) : j < i}
    IN  IF earlier = {} THEN <<0, 0, 0>>
        ELSE LET j == CHOOSE x \in earlier : \A o \in earlier : o <= x
             IN  SubSeq(bcast[s][j].nums, 4, 6)

\* C6: the stored counters equal their values when the latest run was
\* accepted plus the figures of the result events that run has processed;
\* every result event carries the totals stored at that moment, each being
\* the previous result event's totals (of whatever run) plus its own figures.
C6_CountersAdditive ==
    \A s \in DOMAIN sessions :
        /\ LatestRun(s) = NoRun => Totals(sessions[s]) = NoFig
        /\ LatestRun(s) # NoRun =>
              LET r == runs[LatestRun(s)]
              IN  Totals(sessions[s]) =
                      [ cost |-> r.pre.cost + r.reported.cost,
                        input |-> r.pre.input + r.reported.input,
                        output |-> r.pre.output + r.reported.output ]
        /\ \A i \in ResultEvents(s) :
              LET n == bcast[s][i].nums
                  p == PrevTotals(s, i)
              IN  /\ n[4] = p[1] + n[1] /\ n[5] = p[2] + n[2] /\ n[6] = p[3] + n[3]
                  /\ (\A j \in ResultEvents(s) : j <= i) =>
                        <<n[4], n[5], n[6]>> = << sessions[s].totalCost,
                                                  sessions[s].totalInputTokens,
                                                  sessions[s].totalOutputTokens >>

\* a second run has added its result to the totals an earlier run left
C6_Witness ==
    \E s \in DOMAIN sessions :
        /\ LatestRun(s) # NoRun
        /\ runs[LatestRun(s)].pc = "done"
        /\ runs[LatestRun(s)].pre.cost > 0
        /\ runs[LatestRun(s)].reported.cost > 0
        /\ sessions[s].totalCost = runs[LatestRun(s)].pre.cost + runs[LatestRun(s)].reported.cost

\* the token of the last system_init event broadcast for s before position i
LastInitBefore(s, i) ==
    LET inits == {j \in 1..Len(bcast[s]) : j < i /\ bcast[s][j].type = "system_init"}
    IN  IF inits = {} THEN NoToken
        ELSE bcast[s][CHOOSE j \in inits : \A o \in inits : o <= j].val

\* C7: the resume option a run's query() call was given is the token of the
\* last init message processed on its session before the run was accepted,
\* and there is none when no init message was processed before.
C7_ResumeIsCapturedToken ==
    \A r \in RunIds :
        runs[r].pc # "free" =>
            \A i \in EventsOf(runs[r].sid, "user_message", r) :
                runs[r].resume = LastInitBefore(runs[r].sid, i)

\* an earlier run processed two init messages and the next run resumed with
\* the later token
C7_Witness ==
    \E r \in RunIds :
        /\ runs[r].pc # "free"
        /\ runs[r].resume = "t2"
        /\ \E o \in RunIds : o < r /\ runs[o].sid = runs[r].sid /\ runs[o].inits = 2

\* C8: a delete signals cancellation to the session's run, and when the
\* record leaves the registry no active-run entry for the id remains.
C8_DeleteLeavesNoRunHandle ==
    [][\A s \in SessionIds :
          (s \in DOMAIN sessions /\ s \notin DOMAIN sessions') =>
              /\ s \in DOMAIN active => runs'[active[s]].aborted
              /\ s \notin DOMAIN active']_vars

\* what sink k has been written if it got its connected event and then the
\* broadcasts of its session from its subscription up to position upto
Written(k, upto) ==
    <<Ev("connected", "", <<sink[k].sid>>, NoRun)>>
        \o SubSeq(bcast[sink[k].sid], sink[k].from + 1, upto)

\* whether sink k is in some set of the hub
Registered(k) == \E s \in DOMAIN clients : k \in SeqElems(clients[s])

\* C9: a sink whose close event has been handled is in no set of the hub and
\* has been written nothing that was broadcast after it left; every sink
\* still open has been written every broadcast of its session since it
\* subscribed.
C9_ClosedSinkLeavesHub ==
    \A k \in Sinks :
        /\ sink[k].st = "closed" =>
               ~Registered(k) /\ recv[k] = Written(k, sink[k].upto)
        /\ sink[k].st = "open" =>
               recv[k] = Written(k, Len(bcast[sink[k].sid]))

\* a sink closed after receiving part of a run, the run went on broadcasting,
\* and another sink of the session, subscribed before the close, is still open
C9_Witness ==
    \E k, o \in Sinks :
        /\ sink[k].st = "closed" /\ sink[o].st = "open"
        /\ sink[k].sid = sink[o].sid
        /\ Len(recv[k]) > 1
        /\ sink[o].from <= sink[k].upto
        /\ Len(bcast[sink[k].sid]) > sink[k].upto

\* C10: a sink whose write fails is removed by the first broadcast after it
\* broke and is written nothing more; no other sink is removed by a broadcast
\* and each of them, wherever it stands in the set, is written the event.
C10_FailedWriteRemovesOnlyThatSink ==
    /\ \A s \in DOMAIN clients : \A i \in 1..Len(clients[s]) :
           sink[clients[s][i]].sid = s /\ sink[clients[s][i]].st \in {"open", "broken"}
    /\ \A k \in Sinks :
        /\ sink[k].st = "broken" =>
               /\ Registered(k) <=> Len(bcast[sink[k].sid]) = sink[k].upto
               /\ recv[k] = Written(k, sink[k].upto)
        /\ sink[k].st = "open" =>
               /\ Has(clients, sink[k].sid)
               /\ k \in SeqElems(clients[sink[k].sid])
               /\ recv[k] = Written(k, Len(bcast[sink[k].sid]))

\* a broadcast found the second of three sinks of a session broken: it was
\* removed, and the sinks before and after it were written the event
C10_Witness ==
    \E a, b, c \in Sinks :
        /\ a < b /\ b < c
        /\ sink[a].sid = sink[b].sid /\ sink[b].sid = sink[c].sid
        /\ sink[a].st = "open" /\ sink[b].st = "broken" /\ sink[c].st = "open"
        /\ ~Registered(b)
        /\ sink[c].from <= sink[b].upto
        /\ Len(bcast[sink[b].sid]) > sink[b].upto
        /\ clients[sink[b].sid] = <<a, c>>

\* the server state with every subscriber taken out of the hub
Quiet == [World EXCEPT !.clients = EmptyMap]

\* whether the hub holds no sink for session s
NoSubscribers(s) == ~Has(clients, s) \/ clients[s] = <<>>

\* C11: a broadcast made for a session that has no subscriber changes neither
\* the hub's sets nor anything written to any sink, and a session nobody ever
\* subscribed to never gets a set; whatever a run does next (prologue, one
\* upstream message of any kind, catch, finally), the registry it leaves is
\* the one it would leave with every subscriber removed from the hub.
C11_BroadcastWithoutSubscribers ==
    /\ [][\A s \in SessionIds :
            (NoSubscribers(s) /\ Len(bcast'[s]) > Len(bcast[s])) =>
                clients' = clients /\ recv' = recv]_vars
    /\ [](\A s \in SessionIds :
            (\A k \in Sinks : sink[k].sid # s) => ~Has(clients, s))
    /\ [](\A s \in DOMAIN sessions :
            /\ RunPrologue(World, s, 1).sessions = RunPrologue(Quiet, s, 1).sessions
            /\ \A r \in LiveRuns(s) :
                  /\ \A item \in Items :
                        Translate(World, s, r, item).sessions
                            = Translate(Quiet, s, r, item).sessions
                  /\ \A err \in Errors :
                        RunCatch(World, s, r, err, FALSE).sessions
                            = RunCatch(Quiet, s, r, err, FALSE).sessions
                  /\ RunFinally(World, s, r).sessions = RunFinally(Quiet, s, r).sessions)

\* a run has gone from its prologue to its finally block on a session nobody
\* ever subscribed to, while a sink of the other session stayed open
C11_Witness ==
    \E r \in RunIds, k \in Sinks :
        /\ runs[r].pc = "done" /\ runs[r].items > 0
        /\ \A o \in Sinks : sink[o].sid # runs[r].sid
        /\ sink[k].st = "open"
        /\ recv[k] = <<Ev("connected", "", <<sink[k].sid>>, NoRun)>>
        /\ Len(bcast[runs[r].sid]) > 3
        /\ sessions[runs[r].sid].status = "idle"
        /\ Len(sessions[runs[r].sid].messages) = 1

\* the types of the events run r has broadcast for session s, in call order
RunEventTypes(s, r) ==
    LET mine == SelectSeq(bcast[s], LAMBDA e : e.run = r)
    IN  [i \in 1..Len(mine) |-> mine[i].type]

\* the entry of session s in store.list()
ListEntry(s) ==
    LET l == StoreList(sessions)
    IN  l[CHOOSE i \in 1..Len(l) : l[i].id = s]

\* the first run of a session has ended after these upstream messages
FirstTurnWas(s, r, types) ==
    /\ runs[r].sid = s
    /\ \A o \in RunIds \ {r} : runs[o].sid # s
    /\ runs[r].pc = "done" /\ runs[r].exit = "end"
    /\ RunEventTypes(s, r) = <<"status", "user_message">> \o types \o <<"status">>

\* C12 as stated: a fresh session is listed idle with messageCount 0, and
\* after a first turn of one text delta and a result with cost c the list
\* shows totalCost c and the history holds two messages.
C12_RoundTripAsStated ==
    \A s \in DOMAIN sessions :
        /\ LatestRun(s) = NoRun =>
               ListEntry(s).status = "idle" /\ ListEntry(s).messageCount = 0
        /\ \A r \in RunIds, f \in Figures :
               (FirstTurnWas(s, r, <<"text_delta", "result">>) /\ runs[r].reported = f) =>
                   /\ ListEntry(s).totalCost = f.cost
                   /\ Len(GetHistory(sessions, s)) = 2

\* C12: a fresh session is listed idle with messageCount 0; after a first
\* turn of one text delta and a result with cost c the list shows totalCost c
\* and the history holds the user message only; it holds two messages (user,
\* assistant) when the upstream also yields the complete assistant turn
\* between the delta and the result.
C12_RoundTrip ==
    \A s \in DOMAIN sessions :
        /\ LatestRun(s) = NoRun =>
               ListEntry(s).status = "idle" /\ ListEntry(s).messageCount = 0
        /\ \A r \in RunIds, f \in Figures :
               /\ (FirstTurnWas(s, r, <<"text_delta", "result">>) /\ runs[r].reported = f) =>
                     /\ ListEntry(s).totalCost = f.cost
                     /\ ListEntry(s).status = "idle"
                     /\ ListEntry(s).messageCount = 1
                     /\ GetHistory(sessions, s) = <<[role |-> "user", run |-> r]>>
               /\ (FirstTurnWas(s, r, <<"text_delta", "assistant_message", "result">>)
                      /\ runs[r].reported = f) =>
                     /\ ListEntry(s).totalCost = f.cost
                     /\ ListEntry(s).status = "idle"
                     /\ ListEntry(s).messageCount = 2
                     /\ GetHistory(sessions, s) =
                            <<[role |-> "user", run |-> r], [role |-> "assistant", run |-> r]>>

\* the first turn of a session went: text delta, assistant turn, result, end
C12_Witness ==
    \E s \in DOMAIN sessions, r \in RunIds :
        /\ FirstTurnWas(s, r, <<"text_delta", "assistant_message", "result">>)
        /\ ListEntry(s).totalCost = 2
        /\ ListEntry(s).messageCount = 2

\* a chat request that has to be refused: no session id or no prompt, an
\* unknown session, a session that is running, or an unknown slash command
Rejected(sid, prompt, resolved) ==
    \/ sid = NoSid \/ prompt = ""
    \/ ~Has(sessions, sid)
    \/ sessions[sid].status = "running"
    \/ prompt = "/cmd" /\ ~resolved

\* C13: a chat request that has to be refused is answered 400, 404 or 409 in
\* the same turn, and handling it changes nothing: no session field, no
\* history, no active-run entry, no run record (so no upstream call), no
\* broadcast and nothing written to any sink.
C13_RejectedSubmitChangesNothing ==
    \A sid \in SessionIds \cup {NoSid}, p \in Prompts, resolved \in BOOLEAN :
        Rejected(sid, p, resolved) =>
            /\ ChatCode(sid, p, resolved) \in {400, 404, 409}
            /\ ~ENABLED (Chat(sid, p, resolved) /\ vars' # vars)

\* a run is in flight on one session and has processed a result, the other
\* id is unknown: requests of each refused kind can come now
C13_Witness ==
    \E s \in DOMAIN sessions, o \in SessionIds :
        /\ LiveRuns(s) # {} /\ sessions[s].totalCost > 0
        /\ ChatCode(s, "text", TRUE) = 409
        /\ ChatCode(s, "/cmd", TRUE) = 409
        /\ ChatCode(o, "text", TRUE) = 404
        /\ ChatCode(NoSid, "text", TRUE) = 400
        /\ ChatCode(s, "", TRUE) = 400

C15_CancelAsStated ==
    \A id \in DOMAIN sessions :
        /\ LiveRuns(id) = {} =>
               ~InterruptReturns(id) /\ ~ENABLED (Stop(id) /\ vars' # vars)
        /\ (Has(active, id) /\ runs[active[id]].aborted) =>
               ~ENABLED (Stop(id) /\ vars' # vars)
        /\ InterruptReturns(id) =>
               LiveRuns(id) # {} /\ ~runs[active[id]].aborted

\* C15: a cancel returns true exactly when a run is in flight for the id, be
\* its signal aborted already or not, and leaves that signal aborted; a
\* cancel for an id without a run in flight changes nothing, and neither does
\* a cancel for a run that is already cancelled.
C15_CancelIdempotent ==
    \A id \in SessionIds :
        /\ InterruptReturns(id) <=> LiveRuns(id) # {}
        /\ LiveRuns(id) = {} => ~ENABLED (Stop(id) /\ vars' # vars)
        /\ Has(active, id) =>
               /\ Interrupt(id)[active[id]].aborted
               /\ runs[active[id]].aborted => ~ENABLED (Stop(id) /\ vars' # vars)

\* a run was cancelled after its first upstream message and has not unwound
\* yet, while the other session's run has finished: a cancel for either
\* comes now
C15_Witness ==
    \E id, o \in DOMAIN sessions :
        /\ Has(active, id) /\ runs[active[id]].aborted
        /\ runs[active[id]].pc = "streaming" /\ runs[active[id]].items > 0
        /\ InterruptReturns(id)
        /\ LatestRun(o) # NoRun /\ runs[LatestRun(o)].pc = "done"
        /\ ~InterruptReturns(o)

\* C16: a create request with an empty working directory is answered 400 and
\* changes nothing; one with a working directory is answered 201 and can
\* always be served; a step that adds to the registry adds exactly one
\* session, under an id handed out never before and held by no session,
\* with that working directory, status idle, the three counters zero, no
\* resume token and an empty history, and leaves the other sessions as they
\* were.
C16_CreateValidatesAndInitializes ==
    /\ [](\A id \in SessionIds :
            /\ CreateCode("") = 400
            /\ ~ENABLED (CreateSession(id, "") /\ vars' # vars)
            /\ CreateCode("/tmp") = 201
            /\ FreshId(id) => ENABLED (CreateSession(id, "/tmp") /\ Has(sessions', id)))
    /\ [][\A id \in DOMAIN sessions' \ DOMAIN sessions :
            /\ DOMAIN sessions' = DOMAIN sessions \cup {id}
            /\ id \notin usedIds
            /\ \A o \in DOMAIN sessions : sessions'[o] = sessions[o]
            /\ sessions'[id].id = id
            /\ sessions'[id].cwd = "/tmp"
            /\ sessions'[id].status = "idle"
            /\ Totals(sessions'[id]) = NoFig
            /\ sessions'[id].sdkSessionId = NoToken
            /\ sessions'[id].messages = <<>>]_vars

\* the registry holds a session that has had an init message, a result and a
\* user message, and next to it a session that is as create left it
C16_Witness ==
    \E a, b \in DOMAIN sessions :
        /\ a < b
        /\ sessions[a].totalCost > 0 /\ sessions[a].sdkSessionId # NoToken
        /\ Len(sessions[a].messages) > 0
        /\ LatestRun(b) = NoRun
        /\ sessions[b] = NewSession(b, "/tmp")

\* C17: a session of the registry whose status is running while no run of
\* the process is in flight for it (it was loaded so from a snapshot taken
\* during a run) eventually has another status, so that a chat request on it
\* is accepted again (stated for the states in which run() can still be
\* invoked once more).
C17_ReloadedSessionNotStuck ==
    \A s \in SessionIds :
        (Has(sessions, s) /\ sessions[s].status = "running" /\ ~Has(active, s)
                /\ nextRun + 1 \in RunIds)
            ~> (Has(sessions, s) /\ sessions[s].status # "running"
                    /\ ChatCode(s, "text", TRUE) = 202)

\* the records of a persisted array that are session objects
Records(d) == {d.val[i] : i \in {j \in 1..Len(d.val) : d.val[j] # Null}}

\* C18: every session object in the file has an empty history; a restart
\* leaves every loaded session with an empty history and otherwise equal to
\* its record in the file, and loads every record of a file that holds
\* session objects only.
C18_SnapshotsHoldNoMessages ==
    /\ [](\A rec \in Records(disk) : rec.messages = <<>>)
    /\ [][Restart =>
            /\ \A s \in DOMAIN sessions' :
                  /\ Len(GetHistory(sessions', s)) = 0
                  /\ \E rec \in Records(disk) :
                        rec.id = s /\ sessions'[s] = [rec EXCEPT !.messages = <<>>]
            /\ Null \notin SeqElems(disk.val) =>
                  DOMAIN sessions' = {rec.id : rec \in Records(disk)}]_vars

\* a session that had a turn with a result was saved and loaded again: its
\* history is empty now, its cost is the saved one
C18_Witness ==
    \E s \in DOMAIN sessions :
        /\ LatestRun(s) # NoRun /\ runs[LatestRun(s)].pc = "done"
        /\ runs[LatestRun(s)].reported.cost > 0
        /\ sessions[s].messages = <<>>
        /\ sessions[s].totalCost = runs[LatestRun(s)].reported.cost
        /\ disk = Snapshot(sessions)

\* whether the file is unparseable or holds an element that is no session
Corrupt(d) == d.kind = "garbage" \/ Null \in SeqElems(d.val)

\* C19: a restart that finds the file unparseable, or an array with a null
\* element at any position, leaves the registry without any session.
C19_CorruptFileStartsEmpty ==
    [][(Restart /\ Corrupt(disk)) => sessions' = EmptyMap]_vars

\* the position in its session's broadcast log up to which sink k was
\* registered and writable: the end of the log while it is open, else where
\* it broke or closed
DeliveredUpTo(k) ==
    IF sink[k].st = "open" THEN Len(bcast[sink[k].sid]) ELSE sink[k].upto

\* C20: what a sink has been written after its connected event is, element
\* by element, the stretch of its own session's broadcast log that starts
\* with the first broadcast after it subscribed and ends with the last one
\* before it broke or closed (the end of the log while it is open): nothing
\* broadcast before or after, nothing of another session, nothing twice,
\* nothing out of order, nothing missing; a sink that never subscribed has
\* been written nothing.
C20_SinkReceivesItsBroadcastsInOrder ==
    \A k \in Sinks :
        IF sink[k].st = "new" THEN recv[k] = <<>>
        ELSE /\ sink[k].from <= DeliveredUpTo(k)
             /\ DeliveredUpTo(k) <= Len(bcast[sink[k].sid])
             /\ Len(recv[k]) = 1 + DeliveredUpTo(k) - sink[k].from
             /\ recv[k][1].type = "connected"
             /\ \A j \in 2..Len(recv[k]) :
                   recv[k][j] = bcast[sink[k].sid][sink[k].from + j - 1]

\* two sinks of one session subscribed at different points of a run and have
\* each been written a different stretch of it, one of them closed before
\* the run's last broadcast; a sink of the other session got none of it
C20_Witness ==
    \E a, b, c \in Sinks :
        /\ sink[a].sid = sink[b].sid /\ sink[c].sid # sink[a].sid
        /\ sink[c].st = "open" /\ Len(recv[c]) = 1
        /\ sink[a].st = "closed" /\ sink[b].st = "open"
        /\ sink[a].from < sink[b].from
        /\ sink[b].from < sink[a].upto
        /\ sink[a].upto < Len(bcast[sink[a].sid])
        /\ Len(recv[a]) > 2 /\ Len(recv[b]) > 2

\* C21: the hub holds no session key mapped to an empty set, and hasClients
\* is true for an id exactly when some sink is in the set of that id.
C21_NoEmptySubscriberSet ==
    \A s \in SessionIds :
        /\ Has(clients, s) => clients[s] # <<>>
        /\ HasClients(clients, s) <=>
               \E k \in Sinks : Has(clients, s) /\ k \in SeqElems(clients[s])

\* C22: no step lowers the cumulative cost, the cumulative input tokens or
\* the cumulative output tokens of a session that stays in the registry.
C22_CountersNeverDecrease ==
    [][\A s \in DOMAIN sessions \cap DOMAIN sessions' :
          /\ sessions'[s].totalCost >= sessions[s].totalCost
          /\ sessions'[s].totalInputTokens >= sessions[s].totalInputTokens
          /\ sessions'[s].totalOutputTokens >= sessions[s].totalOutputTokens]_vars

\* a session's first run failed after its result, the second run, cancelled
\* later, added a result of its own
C22_Witness ==
    \E s \in DOMAIN sessions, a, b \in RunIds :
        /\ a < b /\ runs[a].sid = s /\ runs[b].sid = s
        /\ runs[a].pc = "done" /\ runs[a].exit = "throw" /\ runs[a].reported.cost > 0
        /\ runs[b].pc = "done" /\ runs[b].aborted /\ runs[b].reported.cost > 0
        /\ sessions[s].totalCost = runs[a].reported.cost + runs[b].reported.cost
        /\ sessions[s].totalInputTokens = runs[a].reported.input + runs[b].reported.input

\* C23: the stored status of a session is idle, running or error; a step
\* that changes it either takes it from idle or error to running, and then
\* it is the step that accepts a run for the session, or takes it from
\* running to idle or to error, and then it is the step in which the
\* session's run unwinds.
C23_StatusTransitions ==
    /\ [](\A s \in DOMAIN sessions : sessions[s].status \in {"idle", "running", "error"})
    /\ [][\A s \in DOMAIN sessions \cap DOMAIN sessions' :
            sessions'[s].status # sessions[s].status =>
                \/ /\ sessions[s].status \in {"idle", "error"}
                   /\ sessions'[s].status = "running"
                   /\ nextRun' = nextRun + 1
                   /\ ~Has(active, s) /\ Has(active', s) /\ active'[s] = nextRun'
                \/ /\ sessions[s].status = "running"
                   /\ sessions'[s].status \in {"idle", "error"}
                   /\ Has(active, s) /\ ~Has(active', s)
                   /\ runs[active[s]].pc = "streaming" /\ runs'[active[s]].pc = "done"]_vars

\* a session went idle, running, error, running, idle: its first run failed,
\* its second run was cancelled by a thrown AbortError
C23_Witness ==
    \E s \in DOMAIN sessions, a, b \in RunIds :
        /\ a < b /\ runs[a].sid = s /\ runs[b].sid = s
        /\ runs[a].pc = "done" /\ runs[a].exit = "throw" /\ ~runs[a].aborted
        /\ runs[b].pc = "done" /\ runs[b].exit = "throw" /\ runs[b].aborted
        /\ sessions[s].status = "idle"

\* the events appended to the broadcast log of session s by the step
NewEvents(s) == SubSeq(bcast'[s], Len(bcast[s]) + 1, Len(bcast'[s]))

\* C24: in a step taken while the signal of a run is aborted, the only events
\* broadcast for that run are status events, no upstream message is counted
\* as processed by it, and as long as its loop is open the history, the
\* counters and the resume token of its session stay as they are.
C24_NothingTranslatedAfterCancel ==
    [][\A r \in RunIds :
          (runs[r].pc \in {"streaming", "done"} /\ runs[r].aborted) =>
              LET s == runs[r].sid
              IN  /\ \A i \in 1..Len(NewEvents(s)) :
                        NewEvents(s)[i].run = r => NewEvents(s)[i].type = "status"
                  /\ runs'[r].items = runs[r].items
                  /\ runs'[r].inits = runs[r].inits
                  /\ runs'[r].reported = runs[r].reported
                  /\ (runs[r].pc = "streaming" /\ Has(sessions, s) /\ Has(sessions', s)) =>
                        /\ sessions'[s].messages = sessions[s].messages
                        /\ Totals(sessions'[s]) = Totals(sessions[s])
                        /\ sessions'[s].sdkSessionId = sessions[s].sdkSessionId]_vars

\* a run was cancelled after it had processed a message, the next message
\* from the upstream made the loop break, and the last thing the run
\* broadcast before its closing status is what it had processed before
C24_Witness ==
    \E r \in RunIds :
        /\ runs[r].pc = "done" /\ runs[r].aborted /\ runs[r].exit = "break"
        /\ runs[r].items = 1
        /\ Has(sessions, runs[r].sid)
        /\ LET mine == SelectSeq(bcast[runs[r].sid], LAMBDA e : e.run = r)
           IN  /\ Len(mine) = 4
               /\ mine[3].type \in {"text_delta", "tool_start", "assistant_message", "result"}
               /\ mine[4] = Ev("status", "idle", <<>>, r)

\* C25: the step in which a run unwinds ends with a status event of that run
\* whose value is the status stored for the session after the step, idle or
\* error (idle when the session is gone), and leaves no active-run entry of
\* that run; a run that has unwound broadcasts nothing any more.
C25_FinalStatusBroadcast ==
    [][\A r \in RunIds :
          LET s == runs[r].sid
          IN  /\ (runs[r].pc = "streaming" /\ runs'[r].pc = "done") =>
                    /\ NewEvents(s) # <<>>
                    /\ LET last == NewEvents(s)[Len(NewEvents(s))]
                       IN  /\ last.type = "status" /\ last.run = r
                           /\ last.val \in {"idle", "error"}
                           /\ last.val = IF Has(sessions', s) THEN sessions'[s].status
                                         ELSE "idle"
                    /\ ~Has(active', s)
              /\ runs[r].pc = "done" =>
                    \A i \in 1..Len(NewEvents(s)) : NewEvents(s)[i].run # r]_vars

\* one run has failed and closed with a status error; another has unwound
\* after its session was deleted and closed with a status idle
C25_Witness ==
    \E r, o \in RunIds :
        /\ runs[r].pc = "done" /\ runs[r].exit = "throw" /\ ~runs[r].aborted
        /\ bcast[runs[r].sid][Len(bcast[runs[r].sid])] = Ev("status", "error", <<>>, r)
        /\ runs[o].pc = "done" /\ ~Has(sessions, runs[o].sid)
        /\ bcast[runs[o].sid][Len(bcast[runs[o].sid])] = Ev("status", "idle", <<>>, o)

\* the events run r has broadcast for its session, in call order
RunEvents(r) == SelectSeq(bcast[runs[r].sid], LAMBDA e : e.run = r)

\* C26: the events of an accepted run start with a status running and then a
\* user_message, each broadcast once by the run; the history of its session
\* holds exactly one user message of the run, before any assistant message
\* of the run; and right after the accepting step, before anything comes
\* from the upstream, the status stored is running and that user message is
\* the last of the history.
C26_RunStartsWithStatusThenUserMessage ==
    \A r \in RunIds :
        runs[r].pc # "free" =>
            LET s == runs[r].sid
                ev == RunEvents(r)
            IN  /\ Len(ev) >= 2
                /\ ev[1] = Ev("status", "running", <<>>, r)
                /\ ev[2] = Ev("user_message", "", <<>>, r)
                /\ \A i \in 3..Len(ev) :
                      ev[i].type # "user_message" /\ ev[i] # ev[1]
                /\ Has(sessions, s) =>
                      LET h == SelectSeq(sessions[s].messages, LAMBDA m : m.run = r)
                      IN  /\ Len(h) >= 1
                          /\ h[1].role = "user"
                          /\ \A i \in 2..Len(h) : h[i].role = "assistant"
                /\ (Len(ev) = 2 /\ Has(sessions, s)) =>
                      /\ sessions[s].status = "running"
                      /\ sessions[s].messages[Len(sessions[s].messages)]
                             = [role |-> "user", run |-> r]

\* a run accepted for an expanded slash command has gone on to a text delta
\* and a complete assistant turn
C26_Witness ==
    \E r \in RunIds :
        /\ runs[r].pc = "streaming" /\ runs[r].items = 2
        /\ Len(bcast[runs[r].sid]) = 5
        /\ bcast[runs[r].sid][1].type = "command_expanded"
        /\ bcast[runs[r].sid][4].type = "text_delta"
        /\ bcast[runs[r].sid][5].type = "assistant_message"

\* C27: an id that has left the registry never returns to it: whatever the
\* run of a deleted session still does (the skipped item, the catch block,
\* the finally block), the registry holds no record under that id afterwards
\* and the history read for that id stays empty.
C27_DeletedSessionStaysDeleted ==
    [][\A s \in SessionIds :
          (s \in usedIds /\ ~Has(sessions, s)) =>
              /\ ~Has(sessions', s)
              /\ GetHistory(sessions', s) = <<>>]_vars

\* a session was deleted while its run was streaming, and the run has since
\* unwound through its finally block
C27_Witness ==
    \E r \in RunIds :
        /\ runs[r].pc = "done"
        /\ runs[r].aborted
        /\ runs[r].sid \in usedIds
        /\ ~Has(sessions, runs[r].sid)
        /\ bcast[runs[r].sid][Len(bcast[runs[r].sid])] = Ev("status", "idle", <<>>, r)

\* a step that run r takes itself: its accepted start, one pass of its loop,
\* or its unwinding (a cancel request only sets the aborted flag)
RunStep(r) == runs'[r] # runs[r] /\ runs'[r].aborted = runs[r].aborted

\* nothing that belongs to session b changes in the step
Untouched(b) ==
    /\ Has(sessions', b) = Has(sessions, b)
    /\ Has(sessions, b) => sessions'[b] = sessions[b]
    /\ bcast'[b] = bcast[b]
    /\ Has(active', b) = Has(active, b)
    /\ Has(active, b) => active'[b] = active[b]
    /\ Has(clients', b) = Has(clients, b)
    /\ Has(clients, b) => clients'[b] = clients[b]
    /\ \A k \in Sinks : sink[k].sid = b => recv'[k] = recv[k] /\ sink'[k] = sink[k]
    /\ \A o \in RunIds : runs[o].sid = b => runs'[o] = runs[o]

\* C28: a step of a run on session a leaves every other session b as it
\* was: its record, its broadcast log, its subscriber set, what its sinks
\* have received, its run and its active entry. And while a run on a is
\* suspended between two upstream items, a start on an existing b that is
\* not running is accepted, a cancel on a running b sets its abort flag,
\* and a subscribe on an existing b registers the sink.
C28_SessionsAreIndependent ==
    /\ [](\A r \in RunIds, b \in SessionIds :
             (runs[r].pc = "streaming" /\ runs[r].sid # b) =>
                 /\ (Has(sessions, b) /\ sessions[b].status # "running"
                       /\ nextRun + 1 \in RunIds) =>
                        ENABLED (Chat(b, "text", TRUE) /\ Has(active', b)
                                   /\ sessions'[b].status = "running")
                 /\ (Has(active, b) /\ ~runs[active[b]].aborted) =>
                        ENABLED (Stop(b) /\ runs'[active[b]].aborted)
                 /\ (Has(sessions, b) /\ \E k \in IsoSinks : sink[k].st = "new") =>
                        ENABLED (\E k \in IsoSinks :
                                    Subscribe(b, k) /\ sink'[k].st = "open"
                                       /\ k \in SeqElems(clients'[b])))
    /\ [][\A r \in RunIds, b \in SessionIds :
             (RunStep(r) /\ runs'[r].sid # b) => Untouched(b)]_vars

\* while the run of one session is suspended after its first item, the other
\* session was subscribed to, started later and has run to its end with a
\* result of its own; the sink of each session holds that session's events only
C28_Witness ==
    \E a, b \in RunIds, k \in Sinks :
        /\ a < b
        /\ runs[a].pc = "streaming" /\ runs[a].items = 1
        /\ runs[b].pc = "done" /\ runs[b].items = 1
        /\ runs[a].sid # runs[b].sid
        /\ sink[k].st = "open" /\ sink[k].sid = runs[b].sid
        /\ \E i \in 1..Len(recv[k]) : recv[k][i].type = "result" /\ recv[k][i].run = b
        /\ \A i \in 1..Len(recv[k]) : recv[k][i].run # a

\* a timeout set by _scheduleSave is pending
SavePending == saveTimer.loop # {}

\* C29: at most one timeout of the store is pending, and it is the one the
\* _saveTimer field holds; a step that changes the registry while a timeout
\* is pending leaves that timeout and no other pending (none is added, and
\* the pending one is not replaced by a later one); and the step in which
\* the timeout fires writes the snapshot of the registry as it is in that
\* step, leaving the registry alone and no timeout pending.
C29_OnePendingWriteOfCurrentState ==
    /\ [](/\ Cardinality(saveTimer.loop) <= 1
          /\ saveTimer.loop = IF saveTimer.field = NoTimer THEN {} ELSE {saveTimer.field})
    /\ [][/\ (SavePending /\ sessions' # sessions) => saveTimer' = saveTimer
          /\ (SavePending /\ saveTimer'.loop # saveTimer.loop) =>
                /\ disk' = Snapshot(sessions)
                /\ sessions' = sessions
                /\ ~SavePending']_vars

\* the flush armed by a create has fired after a start and an assistant
\* message were made in its window: the file shows the status running
C29_Witness ==
    /\ saveTimer.now = 1
    /\ ~SavePending
    /\ disk.kind = "array"
    /\ disk = Snapshot(sessions)
    /\ \E s \in DOMAIN sessions :
          /\ sessions[s].status = "running"
          /\ Len(sessions[s].messages) = 2
          /\ sessions[s].lastActiveAt = 0

\* C30: every step that changes the registry (a record created, updated,
\* given a message, or deleted) leaves a snapshot write pending; so whenever
\* no write is pending after a flush, the file holds the metadata of exactly
\* the sessions in memory, last-active timestamps included.
C30_EveryMutationLeavesAWritePending ==
    /\ [][sessions' # sessions => SavePending']_vars
    /\ []((~SavePending /\ disk.kind = "array") => disk = Snapshot(sessions))

\* some run of session s has terminated
Terminated(s) == \E r \in RunIds : runs[r].sid = s /\ runs[r].pc = "done"

\* C31: an upstream call is opened only by an accepted start: the run that
\* begins to stream is the next unused run, its session had no active run,
\* the step broadcasts the submitted prompt as that run's user_message, and
\* no run is terminated in the same step; a terminated run never streams
\* again. And a session left in status idle or error by a terminated run
\* accepts the next start.
C31_NoAutomaticRetry ==
    /\ [](\A s \in DOMAIN sessions :
             (Terminated(s) /\ ~Has(active, s) /\ sessions[s].status \in {"idle", "error"}
                /\ nextRun + 1 \in RunIds) =>
                 /\ ChatCode(s, "text", TRUE) = 202
                 /\ ENABLED (Chat(s, "text", TRUE) /\ Has(active', s)
                               /\ runs'[nextRun + 1].pc = "streaming"))
    /\ [][\A r \in RunIds :
             /\ runs[r].pc = "done" => runs'[r] = runs[r]
             /\ (runs'[r].pc = "streaming" /\ runs[r].pc # "streaming") =>
                   /\ runs[r].pc = "free" /\ r = nextRun + 1 /\ nextRun' = r
                   /\ ~Has(active, runs'[r].sid)
                   /\ \A o \in RunIds \ {r} : runs'[o] = runs[o]
                   /\ NewEvents(runs'[r].sid) =
                         <<Ev("status", "running", <<>>, r), Ev("user_message", "", <<>>, r)>>]_vars

\* a run failed and left the status error; nothing streamed until the next
\* start was submitted, which was accepted and is streaming
C31_Witness ==
    \E s \in DOMAIN sessions :
        /\ runs[1].sid = s /\ runs[1].pc = "done" /\ runs[1].exit = "throw"
        /\ ~runs[1].aborted
        /\ runs[2].sid = s /\ runs[2].pc = "streaming"
        /\ \E i \in 1..Len(bcast[s]) : bcast[s][i] = Ev("status", "error", <<>>, 1)

\* C32: a resume token that is set stays set while the session exists: a
\* step leaves it as it was, or replaces it by the token of the init message
\* a run of the session handles in that step (announced by system_init);
\* and a start accepted on a session, whatever its status, opens the
\* upstream call with the token the session holds.
C32_ResumeTokenNeverCleared ==
    [][/\ \A s \in DOMAIN sessions \cap DOMAIN sessions' :
             sessions[s].sdkSessionId # NoToken =>
                 /\ sessions'[s].sdkSessionId # NoToken
                 /\ sessions'[s].sdkSessionId # sessions[s].sdkSessionId =>
                       \E r \in RunIds :
                           /\ runs[r].sid = s /\ runs'[r].inits = runs[r].inits + 1
                           /\ NewEvents(s) =
                                 <<Ev("system_init", sessions'[s].sdkSessionId, <<>>, r)>>
       /\ \A r \in RunIds :
             (runs[r].pc = "free" /\ runs'[r].pc = "streaming") =>
                 runs'[r].resume = sessions[runs'[r].sid].sdkSessionId]_vars

\* the first run captured a token and failed, leaving the session in error;
\* the next start on that session was accepted and resumed with the token
C32_Witness ==
    \E s \in DOMAIN sessions :
        /\ runs[1].sid = s /\ runs[1].pc = "done" /\ runs[1].exit = "throw"
        /\ ~runs[1].aborted /\ runs[1].inits = 1
        /\ runs[2].sid = s /\ runs[2].pc = "streaming"
        /\ runs[2].resume = sessions[s].sdkSessionId
        /\ runs[2].resume # NoToken

\* C33: while a session exists its history only grows at the end, by one
\* message per step: the user message of the run whose start is accepted in
\* the step, or the assistant message of the complete turn a run of the
\* session handles in the step (announced by assistant_message), and by
\* nothing else; and the list entry of every session reports the length of
\* its history as messageCount.
C33_HistoryAppendOnly ==
    /\ [](\A s \in DOMAIN sessions :
             ListEntry(s).messageCount = Len(GetHistory(sessions, s)))
    /\ [][\A s \in DOMAIN sessions \cap DOMAIN sessions' :
             LET h == GetHistory(sessions, s)
                 g == GetHistory(sessions', s)
                 started == {r \in RunIds : runs[r].pc = "free" /\ runs'[r].pc = "streaming"
                                               /\ runs'[r].sid = s}
                 turns == {i \in 1..Len(NewEvents(s)) :
                               NewEvents(s)[i].type = "assistant_message"}
             IN  /\ Len(g) >= Len(h) /\ SubSeq(g, 1, Len(h)) = h
                 /\ Len(g) = Len(h) + Cardinality(started) + Cardinality(turns)
                 /\ \A r \in started : g = Append(h, [role |-> "user", run |-> r])
                 /\ \A i \in turns :
                       g = Append(h, [role |-> "assistant", run |-> NewEvents(s)[i].run])]_vars

\* two starts and a complete assistant turn have left a history of three
\* messages, which the list reports
C33_Witness ==
    \E s \in DOMAIN sessions :
        /\ GetHistory(sessions, s) =
              <<[role |-> "user", run |-> 1], [role |-> "assistant", run |-> 1],
                [role |-> "user", run |-> 2]>>
        /\ ListEntry(s).messageCount = 3

\* the events of run r that carry the message id of a turn
TurnEvents(r) ==
    SelectSeq(RunEvents(r),
              LAMBDA e : e.type \in {"text_delta", "tool_start", "assistant_message"})

\* the turn of run r that the i-th of these events belongs to: the number of
\* turns finalized before it
TurnOf(r, i) ==
    Cardinality({j \in 1..(i - 1) : TurnEvents(r)[j].type = "assistant_message"})

\* C34: among the text_delta, tool_start and assistant_message events of a
\* run, two carry the same message id exactly when they belong to the same
\* assistant turn: one id per turn, shared with the assistant_message that
\* finalizes it, and a different id in every later turn.
C34_OneMessageIdPerTurn ==
    \A r \in RunIds :
        runs[r].pc # "free" =>
            \A i, j \in 1..Len(TurnEvents(r)) :
                (TurnOf(r, i) = TurnOf(r, j))
                    <=> (TurnEvents(r)[i].nums = TurnEvents(r)[j].nums)

\* DELETE /api/sessions/:id : the status of the response
DeleteCode(id) == IF StoreDeleteReturns(World, id) THEN 200 ELSE 404

\* C35: for an id the registry does not hold, update returns null,
\* addMessage and delete change nothing, delete returns false, and none of
\* the three changes the registry or the pending write; for an id it holds,
\* delete returns true and a second delete of the same id returns false,
\* and update with no fields returns the record with only its last-active
\* timestamp set to the present time. No step brings back a deleted id that
\* a later call could find.
C35_UnknownIdIsANoOp ==
    /\ [](\A id \in SessionIds \ DOMAIN sessions :
             /\ StoreUpdate(World, id, [status |-> "error"]) = World
             /\ StoreUpdate(World, id, NoFields) = World
             /\ StoreUpdateReturns(World, id, [status |-> "error"]) = Null
             /\ StoreAddMessage(World, id, [role |-> "user", run |-> NoRun]) = World
             /\ StoreDelete(World, id) = World
             /\ ~StoreDeleteReturns(World, id)
             /\ DeleteCode(id) = 404
             /\ ~ENABLED ((\/ CallUpdate(id, NoFields)
                           \/ CallUpdate(id, [status |-> "error"])
                           \/ CallAddMessage(id)
                           \/ DeleteSession(id)) /\ vars' # vars))
    /\ [](\A id \in DOMAIN sessions :
             /\ StoreDeleteReturns(World, id)
             /\ ~StoreDeleteReturns(StoreDelete(World, id), id)
             /\ StoreUpdateReturns(World, id, NoFields)
                   = [sessions[id] EXCEPT !.lastActiveAt = saveTimer.now]
             /\ StoreUpdate(World, id, NoFields).sessions[id]
                   = [sessions[id] EXCEPT !.lastActiveAt = saveTimer.now])
    /\ [][\A id \in usedIds \ DOMAIN sessions : ~Has(sessions', id)]_vars

\* one session has been deleted, so that calls on its id find nothing, and
\* an update with no fields has moved the other session's last-active
\* timestamp past its creation, leaving its status and history as created
C35_Witness ==
    \E a, b \in SessionIds :
        /\ a \in usedIds /\ ~Has(sessions, a)
        /\ DeleteCode(a) = 404
        /\ Has(sessions, b)
        /\ sessions[b].lastActiveAt > sessions[b].createdAt
        /\ sessions[b].status = "idle" /\ sessions[b].messages = <<>>

\* C36: a subscribe for an id the registry does not hold answers 404 and
\* changes nothing, in the hub or elsewhere; a response object that was
\* never accepted has received nothing and is in no subscriber set; and
\* whatever an accepted one has received starts with the connected event
\* naming its session, which it receives once, every broadcast event coming
\* after it.
C36_ConnectedComesFirst ==
    /\ \A id \in SessionIds \ DOMAIN sessions :
          /\ SseCode(id) = 404
          /\ ~Has(clients, id)
          /\ ~ENABLED ((\E k \in Sinks : Subscribe(id, k)) /\ vars' # vars)
    /\ \A k \in Sinks :
          /\ sink[k].st = "new" =>
                /\ recv[k] = <<>>
                /\ \A s \in DOMAIN clients : k \notin SeqElems(clients[s])
          /\ sink[k].st # "new" =>
                /\ Len(recv[k]) >= 1
                /\ recv[k][1] = Ev("connected", "", <<sink[k].sid>>, NoRun)
                /\ \A i \in 2..Len(recv[k]) : recv[k][i].type # "connected"

\* a subscribe for the session that does not exist yet was turned away,
\* while a sink of the other session has received its connected event and
\* then two broadcast events
C36_Witness ==
    \E k \in Sinks, id \in SessionIds :
        /\ ~Has(sessions, id) /\ SseCode(id) = 404
        /\ sink[k].st = "open" /\ sink[k].sid # id
        /\ Len(recv[k]) = 3
        /\ recv[k][1].type = "connected"
        /\ recv[k][2].type = "status"
        /\ recv[k][3].type = "user_message"

\* C37: the page never has more than one EventSource open; and once every
\* selectSession call has got its fetches answered, an open EventSource is
\* the one this.sse holds and streams the session that currentSession names.
C37_StreamIsOfSelectedSession ==
    /\ Cardinality(OpenStreams(client)) <= 1
    /\ client.selecting = <<>> =>
          \A h \in OpenStreams(client) :
              /\ client.sse = h
              /\ client.es[h].sid = client.currentSession

\* the events the page's current EventSource has dispatched so far
Dispatched ==
    IF client.sse = NoStream THEN <<>>
    ELSE SubSeq(recv[client.sse], 1, client.es[client.sse].seen)

\* the last send is over for the page: its POST was rejected, or the page
\* has dispatched the final status event of the run it started
SendIsOver ==
    \/ client.code \notin {NoCode, 202}
    \/ /\ client.run # NoRun
       /\ \E i \in 1..Len(Dispatched) :
             /\ Dispatched[i].type = "status"
             /\ Dispatched[i].run = client.run
             /\ Dispatched[i].val \in {"idle", "error"}

\* C38: once a send is over, rejected by the server or with the final status
\* of its run received, the thinking indicator is no longer displayed.
C38_ThinkingIndicatorRemoved == SendIsOver => ~client.thinking

====
